---- MODULE Spec2Model ----
(***************************************************************************)
(* A model of the two file-health pipelines of check-py.                   *)
(*                                                                         *)
(*   verifier.py       (pipeline A): provision a virtual environment,      *)
(*                     then per target file: check_syntax, run_import_test,*)
(*                     then print the JSON report, delete the environment. *)
(*   detect_health.py  (pipeline B): check_syntax, check_pyflakes on one   *)
(*                     file, print one JSON object.                        *)
(*                                                                         *)
(* A Python str is a sequence of tokens; a token is a piece of text that   *)
(* the code never looks inside (one character, or a fixed word such as     *)
(* "ModuleNotFoundError").  An Optional[str] is <<>> (None) or <<s>>.      *)
(***************************************************************************)
EXTENDS Naturals, Integers, Sequences, FiniteSets, TLC

(***************************************************************************)
(* Bounds of the model.                                                    *)
(***************************************************************************)
\* the longest list of target files given on the command line
MaxFiles == 2
\* the most tokens an import child process writes to stdout and stderr
\* together, in a run of verifier.py
MaxOut == 2
\* the most tokens an import child process writes to stdout, and to stderr, in
\* a single call of run_import_test
MaxStream == 2
\* the most tokens the linter writes to stdout
MaxLint == 2
\* the most tokens of a target file's relative path before its ".py"
MaxPath == 3
\* the most tokens of the text of an exception raised under check_syntax
MaxMsg == 2

(***************************************************************************)
(* Python's str operations, as the code uses them.                         *)
(***************************************************************************)
None == <<>>

Some(s) == <<s>>

\* Python's truth value of an Optional[str]: None and "" are false
Truthy(o) == o # None /\ o[1] # <<>>

IsSpace(c) == c \in {" ", "\n"}

RECURSIVE LStrip(_)
LStrip(s) == IF s # <<>> /\ IsSpace(Head(s)) THEN LStrip(Tail(s)) ELSE s

RECURSIVE RStrip(_)
RStrip(s) ==
    IF s # <<>> /\ IsSpace(s[Len(s)]) THEN RStrip(SubSeq(s, 1, Len(s) - 1)) ELSE s

\* str.strip()
Strip(s) == RStrip(LStrip(s))

\* sub in s
Contains(sub, s) ==
    \E i \in 1..(Len(s) + 1) :
        /\ i + Len(sub) - 1 <= Len(s)
        /\ SubSeq(s, i, i + Len(sub) - 1) = sub

\* s.startswith(p)
StartsWith(s, p) == Len(s) >= Len(p) /\ SubSeq(s, 1, Len(p)) = p

\* s.endswith(p)
EndsWith(s, p) == Len(s) >= Len(p) /\ SubSeq(s, Len(s) - Len(p) + 1, Len(s)) = p

\* s.replace(old, new), for a non-empty old: leftmost occurrences, left to right
RECURSIVE Replace(_, _, _)
Replace(s, old, new) ==
    IF s = <<>> THEN <<>>
    ELSE IF StartsWith(s, old)
         THEN new \o Replace(SubSeq(s, Len(old) + 1, Len(s)), old, new)
         ELSE <<Head(s)>> \o Replace(Tail(s), old, new)

\* s.splitlines(): the lines of s; "" has no line, and a final line break
\* opens no further line
RECURSIVE SplitLines(_)
SplitLines(s) ==
    IF s = <<>> THEN <<>>
    ELSE LET brk == { i \in 1..Len(s) : s[i] = "\n" }
         IN  IF brk = {} THEN <<s>>
             ELSE LET k == CHOOSE i \in brk : \A j \in brk : i <= j
                  IN  <<SubSeq(s, 1, k - 1)>> \o SplitLines(SubSeq(s, k + 1, Len(s)))

\* every text of at most n tokens over the alphabet A
Texts(A, n) == UNION { [1..k -> A] : k \in 0..n }


(***************************************************************************)
(* os.path, on token sequences.  Sep is os.path.sep; a path that starts    *)
(* with a drive token is absolute.                                         *)
(***************************************************************************)
Sep == "\\"

Drives == {"C:", "D:"}

Drive(p) == IF p # <<>> /\ p[1] \in Drives THEN p[1] ELSE ""

\* s.split(c): the pieces of s between the occurrences of the token c
RECURSIVE SplitOn(_, _)
SplitOn(s, c) ==
    LET at == { i \in 1..Len(s) : s[i] = c }
    IN  IF at = {} THEN <<s>>
        ELSE LET k == CHOOSE i \in at : \A j \in at : i <= j
             IN  <<SubSeq(s, 1, k - 1)>> \o SplitOn(SubSeq(s, k + 1, Len(s)), c)

\* c.join(parts)
RECURSIVE JoinWith(_, _)
JoinWith(parts, c) ==
    IF parts = <<>> THEN <<>>
    ELSE IF Len(parts) = 1 THEN parts[1]
    ELSE parts[1] \o <<c>> \o JoinWith(Tail(parts), c)

\* os.path.join(a, b): an absolute b replaces a
PathJoin(a, b) == IF Drive(b) # "" THEN b ELSE a \o <<Sep>> \o b

\* os.path.basename(p): what follows the last separator
Basename(p) == LET parts == SplitOn(p, Sep) IN parts[Len(parts)]

\* os.path.relpath(path, start) for absolute paths: <<>> stands for the
\* ValueError raised when the two are on different drives, <<rel>> is the result
RelPath(path, start) ==
    IF Drive(path) # Drive(start) THEN <<>>
    ELSE LET pp == SplitOn(path, Sep)
             sp == SplitOn(start, Sep)
             same == { n \in 0..Len(sp) :
                          n <= Len(pp) /\ SubSeq(pp, 1, n) = SubSeq(sp, 1, n) }
             k == CHOOSE n \in same : \A m \in same : m <= n
             ups == [i \in 1..(Len(sp) - k) |-> <<"..">>]
             rel == JoinWith(ups \o SubSeq(pp, k + 1, Len(pp)), Sep)
         IN  <<IF rel = <<>> THEN <<".">> ELSE rel>>

(***************************************************************************)
(* verifier.py                                                             *)
(***************************************************************************)
DEP_FILES == <<"requirements.txt", "pyproject.toml">>

TIMEOUT_SECONDS == 15

\* args.project_dir and args.venv_path, made absolute
project_dir == <<"C:", Sep, "proj">>

venv_path == <<"C:", Sep, "venv">>

\* the paths a target file is given by: a module in the project root, a file
\* whose name is only the extension, a file of the same name on another drive
TargetPaths ==
    { <<"m", ".", "py">>,
      <<".", "py">>,
      <<"D:", Sep, "m", ".", "py">> }

\* a variant of find_dep_file that keeps the last name of DEP_FILES that exists
find_dep_file_last(present) ==
    LET found == { i \in 1..Len(DEP_FILES) : DEP_FILES[i] \in present }
    IN  IF found = {} THEN None
        ELSE Some(DEP_FILES[CHOOSE i \in found : \A j \in found : j <= i])

\* find_dep_file, on the set of file names present in the project directory:
\* <<>> is None
find_dep_file(present) ==
    LET found == { i \in 1..Len(DEP_FILES) : DEP_FILES[i] \in present }
    IN  IF found = {} THEN None
        ELSE Some(DEP_FILES[CHOOSE i \in found : \A j \in found : i <= j])

get_venv_python_executable(venv) == venv \o <<Sep, "Scripts", Sep, "python.exe">>

\* what ast.parse of the file's text can do: return, raise SyntaxError(msg,
\* lineno), or (with open/read) raise another exception with text msg
SyntaxOutcomes ==
    { [kind |-> "parsed", msg |-> <<>>, lineno |-> ""],
      [kind |-> "SyntaxError", msg |-> <<"invalid syntax">>, lineno |-> "1"],
      [kind |-> "Exception", msg |-> <<"[Errno 2] No such file or directory">>,
       lineno |-> ""] }

\* the tokens of the text of an exception
MsgChars == {"cannot read file (", ")", " at line ", "1"}

\* the same outcomes with any text: e.msg and str(e) are texts over MsgChars,
\* e.lineno is a line number or None
AnySyntaxOutcomes ==
    {[kind |-> "parsed", msg |-> <<>>, lineno |-> ""]}
    \cup [kind : {"SyntaxError"}, msg : Texts(MsgChars, MaxMsg), lineno : {"1", "None"}]
    \cup [kind : {"Exception"}, msg : Texts(MsgChars, MaxMsg), lineno : {""}]

\* a variant of check_syntax whose message for an unreadable file is str(e)
\* alone, which is empty for an exception without arguments
check_syntax_bare(o) ==
    IF o.kind = "parsed" THEN None
    ELSE IF o.kind = "SyntaxError"
         THEN Some(<<"SyntaxError: ">> \o o.msg \o <<" at line ", o.lineno>>)
         ELSE Some(<<>>)

\* check_syntax of verifier.py
check_syntax(o) ==
    IF o.kind = "parsed" THEN None
    ELSE IF o.kind = "SyntaxError"
         THEN Some(<<"SyntaxError: ">> \o o.msg \o <<" at line ", o.lineno>>)
         ELSE Some(<<"FileReadError: ", "cannot read file (">> \o o.msg \o <<")">>)

\* the tokens an import child process writes
OutChars == {"ModuleNotFoundError", "e", "\n"}

\* what subprocess.run of the import can do: complete with a return code and
\* the two captured streams (of at most n tokens together), raise
\* TimeoutExpired, or raise another exception
ImportOutcomes(n) ==
    { [kind |-> "completed", returncode |-> rc, stdout |-> o[1], stderr |-> o[2]] :
        rc \in {0, 1},
        o \in { q \in Texts(OutChars, n) \X Texts(OutChars, n) :
                  Len(q[1]) + Len(q[2]) <= n } }
    \cup { [kind |-> k, returncode |-> 0, stdout |-> <<>>, stderr |-> <<>>] :
             k \in {"TimeoutExpired", "Exception"} }

\* no child process was started
NoProcess == [kind |-> "none", returncode |-> 0, stdout |-> <<>>, stderr |-> <<>>]

\* run_import_test, lines 94-105: <<>> for the ValueError, else <<module_name>>
module_name_of(file_path) ==
    LET rel == RelPath(file_path, project_dir)
    IN  IF rel = <<>> THEN <<>>
        ELSE LET m1 == Replace(Replace(rel[1], <<Sep>>, <<".">>), <<".", "py">>, <<>>)
             IN  <<IF EndsWith(m1, <<".", "__init__">>)
                   THEN Replace(m1, <<".", "__init__">>, <<>>)
                   ELSE m1>>

\* run_import_test starts the child process
launches_import(file_path) ==
    LET m == module_name_of(file_path) IN m # <<>> /\ m[1] # <<>>

\* a variant of error_output_of that reads the error stream alone
error_output_stderr(p) == Strip(p.stderr)

\* line 122: the error text handed back with a non-zero return code
error_output_of(p) == Strip(p.stdout \o p.stderr)

\* a variant of classify_import that hands the captured output back with
\* every verdict, SUCCESS included
classify_import_with_output(p) ==
    IF p.kind = "TimeoutExpired"
    THEN <<"FAILURE", Some(<<"timeout (over ", ToString(TIMEOUT_SECONDS), " s)">>)>>
    ELSE IF p.kind = "Exception"
    THEN <<"FAILURE", Some(<<"unknown execution error: ", "OSError">>)>>
    ELSE IF p.returncode # 0
    THEN IF Contains(<<"ModuleNotFoundError">>, error_output_of(p))
         THEN <<"DEPENDENCY_FAILURE", Some(error_output_of(p))>>
         ELSE <<"RUNTIME_FAILURE", Some(error_output_of(p))>>
    ELSE <<"SUCCESS", Some(error_output_of(p))>>

\* run_import_test, lines 111-135, on the outcome p of subprocess.run
classify_import(p) ==
    IF p.kind = "TimeoutExpired"
    THEN <<"FAILURE", Some(<<"timeout (over ", ToString(TIMEOUT_SECONDS), " s)">>)>>
    ELSE IF p.kind = "Exception"
    THEN <<"FAILURE", Some(<<"unknown execution error: ", "OSError">>)>>
    ELSE IF p.returncode # 0
    THEN LET error_output == error_output_of(p)
         IN  IF Contains(<<"ModuleNotFoundError">>, error_output)
             THEN <<"DEPENDENCY_FAILURE", Some(error_output)>>
             ELSE <<"RUNTIME_FAILURE", Some(error_output)>>
    ELSE <<"SUCCESS", None>>

\* run_import_test(python_executable, project_dir, file_path), p the outcome
\* of the child process if one is started
run_import_test(file_path, p) ==
    LET m == module_name_of(file_path)
    IN  IF m = <<>> THEN <<"FAILURE", Some(<<"module path conversion failed">>)>>
        ELSE IF m[1] = <<>>
        THEN <<"FAILURE", Some(<<"cannot turn the file into a module name">>)>>
        ELSE classify_import(p)


(***************************************************************************)
(* detect_health.py                                                        *)
(***************************************************************************)
\* sys.argv: the script alone, or the script and the path of the file
LintArgvs ==
    { <<<<"detect_health", ".", "py">>>>,
      <<<<"detect_health", ".", "py">>, <<"m", ".", "py">>>>,
      <<<<"detect_health", ".", "py">>, <<"pyflakes_runtime_error", ".", "py">>>> }

\* a variant of detect_health.py's check_syntax whose message for an unreadable
\* file is "SyntaxError: " followed by str(e)
dh_check_syntax_unwrapped(o) ==
    IF o.kind = "parsed" THEN None
    ELSE IF o.kind = "SyntaxError"
         THEN Some(<<"SyntaxError: ">> \o o.msg \o <<" at line ", o.lineno>>)
         ELSE Some(<<"SyntaxError: ">> \o o.msg)

\* check_syntax of detect_health.py
dh_check_syntax(o) ==
    IF o.kind = "parsed" THEN None
    ELSE IF o.kind = "SyntaxError"
         THEN Some(<<"SyntaxError: ">> \o o.msg \o <<" at line ", o.lineno>>)
         ELSE Some(<<"SyntaxError: ", "cannot read file (">> \o o.msg \o <<")">>)

\* the tokens pyflakes writes about the file at path: a finding is a line that
\* starts with the path as it was given
LintChars(path) == {path[1], "w", "\n"}

\* what subprocess.run of the linter can do: complete with a return code and
\* the captured stdout, or raise an exception whose str() is msg
LintOutcomes(path) ==
    { [kind |-> "completed", returncode |-> rc, stdout |-> so, msg |-> <<>>] :
        rc \in {0, 1}, so \in Texts(LintChars(path), MaxLint) }
    \cup { [kind |-> "Exception", returncode |-> 0, stdout |-> <<>>, msg |-> m] :
             m \in { <<"[", "WinError 5", "] Access is denied">>,
                     <<"[Errno 2] No such file or directory">> } }

\* a variant of check_pyflakes that returns the text of a launch error as it is
check_pyflakes_plain(p) ==
    IF p.kind = "Exception"
    THEN Some(p.msg)
    ELSE LET output == Strip(p.stdout)
         IN  IF p.returncode # 0 /\ output = <<>>
             THEN Some(<<"Pyflakes execution failed with return code ",
                         ToString(p.returncode)>>)
             ELSE IF output # <<>> THEN Some(output) ELSE None

\* check_pyflakes, lines 34-50, on the outcome p of subprocess.run
check_pyflakes(p) ==
    IF p.kind = "Exception"
    THEN IF Contains(<<"WinError 5">>, p.msg)
         THEN Some(<<"pyflakes_runtime_error",
                     ": Access Denied (WinError 5). Check file execution rights.">>)
         ELSE Some(<<"pyflakes_runtime_error", ": ">> \o p.msg)
    ELSE LET output == Strip(p.stdout)
         IN  IF p.returncode # 0 /\ output = <<>>
             THEN Some(<<"Pyflakes execution failed with return code ",
                         ToString(p.returncode)>>)
             ELSE IF output # <<>> THEN Some(output) ELSE None

\* check_file, lines 61-69, on what check_pyflakes returned
semantic_result(semantic) ==
    IF Truthy(semantic) /\ StartsWith(semantic[1], <<"pyflakes_runtime_error">>)
    THEN [status |-> "error", message |-> semantic[1]]
    ELSE IF Truthy(semantic)
    THEN [status |-> "semantic_error", message |-> semantic[1]]
    ELSE [status |-> "ok"]

\* main, lines 164-180: the detail of the [STATUS] line of one result, as
\* <<line>>; <<>> stands for the IndexError of indexing an empty splitlines()
status_detail(status, error) ==
    IF status = "SUCCESS" THEN <<<<>>>>
    ELSE LET lines == SplitLines(error[1])
         IN  IF lines = <<>> THEN <<>>
             ELSE IF status \in {"DEPENDENCY_FAILURE", "RUNTIME_FAILURE"}
                  THEN <<lines[Len(lines)]>>
                  ELSE <<lines[1]>>

\* a variant of append_result that puts the new result first
prepend_result(rs, r) == <<r>> \o rs

\* main, line 182: results.append(result)
append_result(rs, r) == Append(rs, r)

(***************************************************************************)
(* The state.                                                              *)
(***************************************************************************)
VARIABLES
    prog,          \* the code that runs: "verifier", "detect_health", or a
                   \* direct call of one of their functions
    pc,            \* where it is
    present,       \* the dependency files present in the project directory
    target_files,  \* args.target_files
    argv,          \* sys.argv of detect_health.py
    idx,           \* the position of main's for loop in target_files
    results,       \* main's results list
    verdict,       \* history: by position, the verdict computed for a target file
    syn_seen,      \* history: by position, what check_syntax returned for a file
    proc,          \* history: the outcome of the last child process kept in full
    stdout,        \* the payloads printed on standard output
    log,           \* the tags of the lines printed on standard error
    calls,         \* the child processes started, in order
    venv_exists,   \* venv_path exists on disk
    interp_exists, \* the environment's python.exe exists on disk
    deleted,       \* how often shutil.rmtree(venv_path) was called
    exit_code,     \* the process's exit status, -1 while it runs
    environ,       \* os.environ's PYTHONPATH in the running process: None or a text
    child,         \* history: the command and environment of the last import child
    derived,       \* history: what run_import_test last derived as module name
    seen,          \* history: the paths os.path.exists has answered True for
    syn_in         \* history: the outcomes handed to direct calls of check_syntax

vars ==
    <<prog, pc, present, target_files, argv, idx, results, verdict, syn_seen, proc,
      stdout, log, calls, venv_exists, interp_exists, deleted, exit_code, environ,
      child, derived, seen, syn_in>>

\* what the run is given
given == <<prog, present, target_files, argv>>

\* the state of main's loop
loop == <<idx, results, verdict, syn_seen>>

\* the environment on disk
disk == <<venv_exists, interp_exists, deleted>>

\* what only some steps touch
aux == <<environ, child, derived, seen, syn_in>>

\* no import child was started
NoChild == [executable |-> <<>>, module |-> <<>>, pythonpath |-> <<>>]


\* the values of PYTHONPATH the script may be started with: unset, or a path
Environs == {None, Some(<<"C:", Sep, "lib">>)}

Call(cmd, file, outcome) == [cmd |-> cmd, file |-> file, outcome |-> outcome]

InitRest ==
    /\ pc = "start"
    /\ idx = 1
    /\ results = <<>>
    /\ verdict = <<>>
    /\ syn_seen = <<>>
    /\ proc = NoProcess
    /\ stdout = <<>>
    /\ log = <<>>
    /\ calls = <<>>
    /\ venv_exists = FALSE
    /\ interp_exists = FALSE
    /\ deleted = 0
    /\ exit_code = -1
    /\ child = NoChild
    /\ derived = <<>>
    /\ seen = {}
    /\ syn_in = <<>>

Init ==
    /\ prog \in {"verifier", "detect_health"}
    /\ IF prog = "verifier"
       THEN /\ present \in SUBSET {DEP_FILES[i] : i \in 1..Len(DEP_FILES)}
            /\ target_files \in UNION { [1..n -> TargetPaths] : n \in 1..MaxFiles }
            /\ argv = <<>>
       ELSE /\ present = {}
            /\ target_files = <<>>
            /\ argv \in LintArgvs
    /\ environ = None
    /\ InitRest

\* sys.exit(code)
Exit(code) == pc' = "exited" /\ exit_code' = code

\* an exception nobody catches: the traceback is printed and Python exits with 1
Crash == pc' = "crashed" /\ exit_code' = 1 /\ log' = Append(log, "Traceback")

(***************************************************************************)
(* verifier.py: install_dependencies, called by main at line 148.  A False *)
(* return is main's sys.exit(1) of line 149.                               *)
(***************************************************************************)
\* lines 28-38: python -m venv
CreateVenv ==
    /\ prog = "verifier" /\ pc = "start"
    /\ calls' = Append(calls, Call("venv", 0, ""))
    /\ \E ok \in BOOLEAN :
         IF ok
         THEN /\ venv_exists' = TRUE
              /\ interp_exists' \in BOOLEAN
              /\ log' = Append(log, "VENV_SETUP")
              /\ pc' = "check_interpreter"
              /\ UNCHANGED exit_code
         ELSE /\ venv_exists' \in BOOLEAN
              /\ interp_exists' = FALSE
              /\ log' = log \o <<"VENV_SETUP", "ERROR">>
              /\ Exit(1)
    /\ UNCHANGED <<given, aux, loop, proc, stdout, deleted>>

\* a variant of CheckInterpreter that does not look for the interpreter
CheckInterpreterSkipped ==
    /\ prog = "verifier" /\ pc = "check_interpreter"
    /\ IF find_dep_file(present) = None
       THEN /\ log' = log \o <<"DEP_INSTALL", "INFO">>
            /\ pc' = "loop"
       ELSE /\ log' = Append(log, "DEP_INSTALL")
            /\ pc' = "pip_upgrade"
    /\ UNCHANGED <<given, aux, loop, proc, stdout, calls, disk, exit_code>>

\* lines 40-45 and 66-69: the interpreter must exist; without a dependency
\* file the installation is skipped
CheckInterpreter ==
    /\ prog = "verifier" /\ pc = "check_interpreter"
    /\ IF ~interp_exists
       THEN /\ log' = Append(log, "ERROR")
            /\ Exit(1)
       ELSE IF find_dep_file(present) = None
       THEN /\ log' = log \o <<"DEP_INSTALL", "INFO">>
            /\ pc' = "loop"
            /\ UNCHANGED exit_code
       ELSE /\ log' = Append(log, "DEP_INSTALL")
            /\ pc' = "pip_upgrade"
            /\ UNCHANGED exit_code
    /\ seen' = IF interp_exists
               THEN seen \cup {get_venv_python_executable(venv_path)}
               ELSE seen
    /\ UNCHANGED <<given, environ, child, derived, syn_in, loop, proc, stdout,
                   calls, disk>>

\* a variant of UpgradePip that goes on to the installation after a failed upgrade
UpgradePipLenient ==
    /\ prog = "verifier" /\ pc = "pip_upgrade"
    /\ calls' = Append(calls, Call("pip install --upgrade pip", 0, ""))
    /\ \E ok \in BOOLEAN :
         /\ log' = IF ok THEN log ELSE Append(log, "ERROR")
         /\ pc' = "pip_install"
         /\ UNCHANGED exit_code
    /\ UNCHANGED <<given, aux, loop, proc, stdout, disk>>

\* lines 49-50 and 62-65: pip install --upgrade pip
UpgradePip ==
    /\ prog = "verifier" /\ pc = "pip_upgrade"
    /\ calls' = Append(calls, Call("pip install --upgrade pip", 0, ""))
    /\ \E ok \in BOOLEAN :
         IF ok
         THEN pc' = "pip_install" /\ UNCHANGED <<log, exit_code>>
         ELSE log' = Append(log, "ERROR") /\ Exit(1)
    /\ UNCHANGED <<given, aux, loop, proc, stdout, disk>>

\* lines 52-57: the installer command for the dependency file found
install_cmd(dep_filename) ==
    IF dep_filename = "requirements.txt" THEN "pip install -r"
    ELSE IF dep_filename = "pyproject.toml" THEN "pip install ."
    ELSE "pip install"

\* lines 52-65: the dependency installation
InstallDeps ==
    /\ prog = "verifier" /\ pc = "pip_install"
    /\ calls' = Append(calls, Call(install_cmd(find_dep_file(present)[1]), 0, ""))
    /\ \E ok \in BOOLEAN :
         IF ok
         THEN /\ log' = log \o <<"DEP_INSTALL", "INFO">>
              /\ pc' = "loop"
              /\ UNCHANGED exit_code
         ELSE log' = Append(log, "ERROR") /\ Exit(1)
    /\ UNCHANGED <<given, aux, loop, proc, stdout, disk>>

(***************************************************************************)
(* verifier.py: main's loop over the target files, lines 156-182.          *)
(***************************************************************************)
\* line 157
full_path(i) == PathJoin(project_dir, target_files[i])

\* where the loop goes after the i-th file
NextFile(i) == IF i < Len(target_files) THEN "loop" ELSE "emit"

\* lines 168-182: the result is logged and appended; an exception in the
\* logging ends the run
Record(result) ==
    IF status_detail(result.status, result.error) = <<>>
    THEN /\ Crash
         /\ UNCHANGED <<idx, results, verdict>>
    ELSE /\ results' = append_result(results, result)
         /\ verdict' = verdict @@ (idx :> result)
         /\ log' = Append(log, "STATUS")
         /\ idx' = idx + 1
         /\ pc' = NextFile(idx)
         /\ UNCHANGED exit_code

\* lines 157-164 and 182: stage 1; a syntax error is the file's result
SyntaxStage ==
    /\ prog = "verifier" /\ pc = "loop"
    /\ \E o \in SyntaxOutcomes :
         LET syn_error == check_syntax(o)
         IN  /\ syn_seen' = syn_seen @@ (idx :> syn_error)
             /\ IF Truthy(syn_error)
                THEN Record([file |-> Basename(full_path(idx)),
                             status |-> "SYNTAX_ERROR", error |-> syn_error])
                ELSE /\ pc' = "import"
                     /\ UNCHANGED <<idx, results, verdict, log, exit_code>>
    /\ UNCHANGED <<given, aux, proc, stdout, calls, disk>>

\* line 109: the PYTHONPATH handed to the import child, os.pathsep being ";"
child_pythonpath(env) ==
    project_dir \o <<";">> \o (IF env = None THEN <<>> ELSE env[1])

\* a variant of environ_after_import for env = os.environ, without the copy
environ_shared(env) == Some(child_pythonpath(env))

\* lines 108-109: the PYTHONPATH of the running process after the child's
\* environment was built from os.environ.copy()
environ_after_import(env) == env

\* lines 94-109: what run_import_test derives and builds for file_path before
\* the child process runs; python_executable is main's, line 151
StartImport(file_path) ==
    /\ derived' = module_name_of(file_path)
    /\ IF launches_import(file_path)
       THEN /\ child' = [executable |-> get_venv_python_executable(venv_path),
                         module |-> module_name_of(file_path)[1],
                         pythonpath |-> child_pythonpath(environ)]
            /\ environ' = environ_after_import(environ)
       ELSE UNCHANGED <<child, environ>>

\* lines 166-182: stage 2, run_import_test and the [STATUS] line
ImportStage ==
    /\ prog = "verifier" /\ pc = "import"
    /\ \E p \in IF launches_import(full_path(idx)) THEN ImportOutcomes(MaxOut)
                 ELSE {NoProcess} :
         LET r == run_import_test(full_path(idx), p)
         IN  /\ calls' = IF launches_import(full_path(idx))
                         THEN Append(calls, Call("import", idx, p.kind))
                         ELSE calls
             /\ Record([file |-> Basename(full_path(idx)),
                        status |-> r[1], error |-> r[2]])
    /\ StartImport(full_path(idx))
    /\ UNCHANGED <<given, seen, syn_in, syn_seen, proc, stdout, disk>>

\* line 185: print(json.dumps(results))
EmitReport ==
    /\ prog = "verifier" /\ pc = "emit"
    /\ stdout' = Append(stdout, results)
    /\ pc' = "cleanup"
    /\ UNCHANGED <<given, aux, loop, proc, log, calls, disk, exit_code>>

\* lines 188-194: shutil.rmtree(venv_path), a warning if it raises, sys.exit(0)
Cleanup ==
    /\ prog = "verifier" /\ pc = "cleanup"
    /\ deleted' = deleted + 1
    /\ \E ok \in BOOLEAN :
         IF ok
         THEN /\ venv_exists' = FALSE
              /\ interp_exists' = FALSE
              /\ log' = Append(log, "CLEANUP")
         ELSE /\ log' = Append(log, "CLEANUP_WARN")
              /\ UNCHANGED <<venv_exists, interp_exists>>
    /\ Exit(0)
    /\ UNCHANGED <<given, aux, loop, proc, stdout, calls>>

(***************************************************************************)
(* detect_health.py: the script body, lines 71-80, and check_file.         *)
(***************************************************************************)
\* a variant of DetectMain that ends with exit code 0 when the argument is missing
DetectMainQuiet ==
    /\ prog = "detect_health" /\ pc = "start"
    /\ IF Len(argv) < 2
       THEN /\ stdout' = Append(stdout, [status |-> "error",
                                         message |-> <<"Missing file path argument">>])
            /\ Exit(0)
       ELSE /\ pc' = "check_file"
            /\ UNCHANGED <<stdout, exit_code>>
    /\ UNCHANGED <<given, aux, loop, proc, log, calls, disk>>

\* lines 72-77: the argument check
DetectMain ==
    /\ prog = "detect_health" /\ pc = "start"
    /\ IF Len(argv) < 2
       THEN /\ stdout' = Append(stdout, [status |-> "error",
                                         message |-> <<"Missing file path argument">>])
            /\ Exit(1)
       ELSE /\ pc' = "check_file"
            /\ UNCHANGED <<stdout, exit_code>>
    /\ UNCHANGED <<given, aux, loop, proc, log, calls, disk>>

\* lines 54-56 and 80: stage 1; a syntax error is printed as the result, and
\* the script ends with status 0
DetectSyntax ==
    /\ prog = "detect_health" /\ pc = "check_file"
    /\ \E o \in SyntaxOutcomes :
         LET syn == dh_check_syntax(o)
         IN  /\ syn_seen' = <<syn>>
             /\ IF Truthy(syn)
                THEN /\ stdout' = Append(stdout, [status |-> "syntax_error",
                                                  message |-> syn[1]])
                     /\ Exit(0)
                ELSE /\ pc' = "pyflakes"
                     /\ UNCHANGED <<stdout, exit_code>>
    /\ UNCHANGED <<given, aux, idx, results, verdict, proc, log, calls, disk>>

\* lines 59-69 and 80: stage 2; the linter's verdict is printed as the result
DetectPyflakes ==
    /\ prog = "detect_health" /\ pc = "pyflakes"
    /\ \E p \in LintOutcomes(argv[2]) :
         /\ calls' = Append(calls, Call("pyflakes", 1, p.kind))
         /\ proc' = p
         /\ stdout' = Append(stdout, semantic_result(check_pyflakes(p)))
    /\ Exit(0)
    /\ UNCHANGED <<given, aux, loop, log, disk>>

Next ==
    \/ CreateVenv
    \/ CheckInterpreter
    \/ UpgradePip
    \/ InstallDeps
    \/ SyntaxStage
    \/ ImportStage
    \/ EmitReport
    \/ Cleanup
    \/ DetectMain
    \/ DetectSyntax
    \/ DetectPyflakes

Spec == Init /\ [][Next]_vars

(***************************************************************************)
(* Runs of verifier.py on a project with a requirements.txt, in a process  *)
(* that has a PYTHONPATH of its own or has none.                           *)
(***************************************************************************)
InitEnviron ==
    /\ prog = "verifier"
    /\ present = {"requirements.txt"}
    /\ target_files \in UNION { [1..n -> TargetPaths] : n \in 1..MaxFiles }
    /\ argv = <<>>
    /\ environ \in Environs
    /\ InitRest

NextVerifier ==
    \/ CreateVenv
    \/ CheckInterpreter
    \/ UpgradePip
    \/ InstallDeps
    \/ SyntaxStage
    \/ ImportStage
    \/ EmitReport
    \/ Cleanup

SpecEnviron == InitEnviron /\ [][NextVerifier]_vars

(***************************************************************************)
(* One direct call of run_import_test, with each captured stream bounded   *)
(* on its own.                                                             *)
(***************************************************************************)
InitImport ==
    /\ prog = "run_import_test"
    /\ present = {}
    /\ target_files \in [1..1 -> TargetPaths]
    /\ argv = <<>>
    /\ environ = None
    /\ InitRest

CallImportTest ==
    /\ prog \in {"run_import_test", "derive_module_name"} /\ pc = "start"
    /\ \E p \in IF ~launches_import(full_path(1)) THEN {NoProcess}
                 ELSE IF prog = "run_import_test" THEN ImportOutcomes(2 * MaxStream)
                 ELSE ImportOutcomes(0) :
         LET r == run_import_test(full_path(1), p)
         IN  /\ Len(p.stdout) <= MaxStream /\ Len(p.stderr) <= MaxStream
             /\ calls' = IF launches_import(full_path(1))
                         THEN Append(calls, Call("import", 1, p.kind))
                         ELSE calls
             /\ proc' = p
             /\ results' = <<[file |-> Basename(full_path(1)),
                              status |-> r[1], error |-> r[2]]>>
    /\ StartImport(full_path(1))
    /\ pc' = "returned"
    /\ UNCHANGED <<given, seen, syn_in, idx, verdict, syn_seen, stdout, log, disk,
                   exit_code>>

NextImport == CallImportTest

SpecImport == InitImport /\ [][NextImport]_vars

(***************************************************************************)
(* Two direct calls of check_syntax, of verifier.py or of detect_health.py,*)
(* each on a file with any outcome of open, read and ast.parse.            *)
(***************************************************************************)
InitSyntax ==
    /\ prog \in {"verifier.check_syntax", "detect_health.check_syntax"}
    /\ present = {}
    /\ target_files = <<>>
    /\ argv = <<>>
    /\ environ = None
    /\ InitRest

CallCheckSyntax ==
    /\ prog \in {"verifier.check_syntax", "detect_health.check_syntax"}
    /\ pc = "start"
    /\ \E o \in AnySyntaxOutcomes :
         /\ syn_in' = Append(syn_in, o)
         /\ syn_seen' = Append(syn_seen,
                               IF prog = "verifier.check_syntax"
                               THEN check_syntax(o) ELSE dh_check_syntax(o))
    /\ pc' = IF Len(syn_in) = 0 THEN "start" ELSE "returned"
    /\ UNCHANGED <<given, environ, child, derived, seen, idx, results, verdict,
                   proc, stdout, log, calls, disk, exit_code>>

NextSyntax == CallCheckSyntax

SpecSyntax == InitSyntax /\ [][NextSyntax]_vars

(***************************************************************************)
(* One direct call of run_import_test on each Python file a project may    *)
(* hold, the child process writing nothing.                                *)
(***************************************************************************)
\* the tokens of a relative path
PathChars == {"m", ".", "py", "__init__", Sep}

\* a relative path as relpath returns it: no empty component and no "." or ".."
NormalPath(path) ==
    LET parts == SplitOn(path, Sep)
    IN  \A i \in 1..Len(parts) : parts[i] \notin {<<>>, <<".">>, <<".", ".">>}

\* the relative paths of the Python files
ModulePaths ==
    { path \in { b \o <<".", "py">> : b \in Texts(PathChars, MaxPath) } :
        NormalPath(path) }

InitModule ==
    /\ prog = "derive_module_name"
    /\ present = {}
    /\ target_files \in [1..1 -> ModulePaths]
    /\ argv = <<>>
    /\ environ = None
    /\ InitRest

SpecModule == InitModule /\ [][NextImport]_vars


(***************************************************************************)
(* Properties.                                                             *)
(***************************************************************************)
ImportCalled(i) ==
    \E k \in 1..Len(calls) : calls[k].cmd = "import" /\ calls[k].file = i

LinterCalled == \E k \in 1..Len(calls) : calls[k].cmd = "pyflakes"

Logged(tag) == \E i \in 1..Len(log) : log[i] = tag

\* install_dependencies returned False: only it logs an [ERROR] line
ProvisioningFailed == Logged("ERROR")

\* C1: a report printed by verifier.py holds exactly one result per target
\* file, and the i-th result is the verdict computed for the i-th target file,
\* under that file's base name.
ReportMatchesInput ==
    prog = "verifier" =>
        \A k \in 1..Len(stdout) :
            /\ Len(stdout[k]) = Len(target_files)
            /\ \A i \in 1..Len(target_files) :
                 /\ stdout[k][i] = verdict[i]
                 /\ stdout[k][i].file = Basename(full_path(i))

\* a report on two files whose verdicts differ, so that their order shows
ReportMatchesInputWitness ==
    /\ prog = "verifier"
    /\ Len(stdout) = 1
    /\ Len(target_files) = 2
    /\ stdout[1][1].status = "SYNTAX_ERROR"
    /\ stdout[1][2].status = "DEPENDENCY_FAILURE"

\* C2: once provisioning has succeeded, no outcome of a file's checks ends
\* the run: a run of verifier.py that has ended has a verdict for every target
\* file and has printed the report.
NoFileOutcomeEndsRun ==
    (prog = "verifier" /\ ~ProvisioningFailed /\ exit_code # -1) =>
        /\ pc = "exited"
        /\ DOMAIN verdict = 1..Len(target_files)
        /\ Len(stdout) = 1

\* C3: after a run of verifier.py has ended, in success or in failure, the
\* environment path is gone from the disk, unless the deletion failed, a
\* warning was logged and the run ended normally.
EnvironmentGoneAfterRun ==
    (prog = "verifier" /\ exit_code # -1) =>
        \/ ~venv_exists
        \/ Logged("CLEANUP_WARN") /\ pc = "exited"

\* C4: in both pipelines a file whose syntax check returned an error has the
\* syntax-error status and no second stage is started for it; a second stage
\* (import process, linter process) is started only for a file whose syntax
\* check returned no error.
SyntaxErrorStopsFile ==
    /\ prog = "verifier" =>
         /\ \A i \in DOMAIN syn_seen :
              syn_seen[i] # None =>
                  /\ ~ImportCalled(i)
                  /\ pc # "import" \/ idx # i
                  /\ i \in DOMAIN verdict
                  /\ verdict[i].status = "SYNTAX_ERROR"
                  /\ results[i].status = "SYNTAX_ERROR"
         /\ \A i \in 1..Len(target_files) :
              (ImportCalled(i) \/ (pc = "import" /\ idx = i)) =>
                  i \in DOMAIN syn_seen /\ syn_seen[i] = None
    /\ prog = "detect_health" =>
         /\ (syn_seen # <<>> /\ syn_seen[1] # None) =>
                /\ ~LinterCalled
                /\ pc = "exited"
                /\ Len(stdout) = 1
                /\ stdout[1].status = "syntax_error"
         /\ (LinterCalled \/ pc = "pyflakes") =>
                syn_seen # <<>> /\ syn_seen[1] = None

\* a run of verifier.py whose first file has a syntax error and whose second
\* file went on to the import
SyntaxErrorStopsFileWitness ==
    /\ prog = "verifier"
    /\ DOMAIN syn_seen = {1, 2}
    /\ syn_seen[1] # None
    /\ ~ImportCalled(1)
    /\ ImportCalled(2)

\* the call of run_import_test whose child process completed
ImportCompleted ==
    prog = "run_import_test" /\ pc = "returned" /\ proc.kind = "completed"

\* d is t without its leading and trailing whitespace
IsTrimmed(d, t) ==
    /\ d = <<>> \/ (~IsSpace(d[1]) /\ ~IsSpace(d[Len(d)]))
    /\ \E a \in 0..Len(t) :
         /\ a + Len(d) <= Len(t)
         /\ SubSeq(t, a + 1, a + Len(d)) = d
         /\ \A j \in (1..a) \cup ((a + Len(d) + 1)..Len(t)) : IsSpace(t[j])

\* C5, as claimed: return code 0 gives SUCCESS without detail; a non-zero
\* return code gives DEPENDENCY_FAILURE if stdout + stderr holds the
\* module-not-found signature and RUNTIME_FAILURE if not, and the detail is
\* the full captured output.
ImportDetailIsFullOutput ==
    ImportCompleted =>
        LET full == proc.stdout \o proc.stderr
            r == results[1]
        IN  IF proc.returncode = 0
            THEN r.status = "SUCCESS" /\ r.error = None
            ELSE /\ r.status = IF Contains(<<"ModuleNotFoundError">>, full)
                               THEN "DEPENDENCY_FAILURE" ELSE "RUNTIME_FAILURE"
                 /\ r.error = Some(full)

\* C5, amended: the same classification, and the detail is the captured
\* output (stdout followed by stderr) without its leading and trailing
\* whitespace.
ImportDetailIsTrimmedOutput ==
    ImportCompleted =>
        LET full == proc.stdout \o proc.stderr
            r == results[1]
        IN  IF proc.returncode = 0
            THEN r.status = "SUCCESS" /\ r.error = None
            ELSE /\ r.status = IF Contains(<<"ModuleNotFoundError">>, full)
                               THEN "DEPENDENCY_FAILURE" ELSE "RUNTIME_FAILURE"
                 /\ r.error # None
                 /\ IsTrimmed(r.error[1], full)

\* a failed import that wrote to both streams, with the signature not at the
\* start and whitespace at the end
ImportDetailWitness ==
    /\ ImportCompleted
    /\ proc.returncode # 0
    /\ proc.stdout = <<"e">>
    /\ proc.stderr = <<"ModuleNotFoundError", "\n">>
    /\ results[1].status = "DEPENDENCY_FAILURE"
    /\ results[1].error = Some(<<"e", "ModuleNotFoundError">>)

\* C6: when the linter process exits with a non-zero code and no standard
\* output, detect_health.py reports status "error".
LinterFailureIsError ==
    (/\ prog = "detect_health"
     /\ proc.kind = "completed"
     /\ proc.returncode # 0
     /\ proc.stdout = <<>>) =>
        stdout[1].status = "error"

\* C7: for a file that parsed, when the linter process completes with text on
\* standard output, whatever its exit code and whatever the text, the status
\* is "semantic_error" and the message is that text (as stripped); with no
\* output and exit code 0 the status is "ok".
LinterOutputIsSemanticError ==
    (prog = "detect_health" /\ proc.kind = "completed") =>
        /\ Strip(proc.stdout) # <<>> =>
               /\ stdout[1].status = "semantic_error"
               /\ stdout[1].message = Strip(proc.stdout)
        /\ (proc.stdout = <<>> /\ proc.returncode = 0) =>
               stdout[1].status = "ok"

\* C8: a run of verifier.py ends with exit code 1 exactly when provisioning
\* failed, and then no file was checked and nothing was reported; every other
\* run ends with exit code 0.
ExitOneIffProvisioningFailed ==
    (prog = "verifier" /\ exit_code # -1) =>
        IF ProvisioningFailed
        THEN /\ exit_code = 1
             /\ syn_seen = <<>>
             /\ verdict = <<>>
             /\ stdout = <<>>
        ELSE exit_code = 0

StatusesA ==
    {"SYNTAX_ERROR", "SUCCESS", "DEPENDENCY_FAILURE", "RUNTIME_FAILURE", "FAILURE"}

StatusesB == {"syntax_error", "error", "semantic_error", "ok"}

WellFormedA(r) ==
    /\ r.status \in StatusesA
    /\ r.error = None <=> r.status = "SUCCESS"

WellFormedB(r) ==
    /\ r.status \in StatusesB
    /\ "message" \notin DOMAIN r <=> r.status = "ok"

TimeoutDoesNotEndRun ==
    prog = "verifier" =>
        \A k \in 1..Len(calls) :
            (calls[k].cmd = "import" /\ calls[k].outcome = "TimeoutExpired") =>
                /\ calls[k].file \in DOMAIN verdict
                /\ verdict[calls[k].file].status = "FAILURE"
                /\ Contains(<<ToString(TIMEOUT_SECONDS)>>,
                            verdict[calls[k].file].error[1])
                /\ exit_code # -1 =>
                       /\ DOMAIN verdict = 1..Len(target_files)
                       /\ Len(stdout) = 1


\* the direct call of run_import_test on a project file has returned
ModuleCallReturned == prog = "derive_module_name" /\ pc = "returned"

\* s without its last n tokens
DropLast(s, n) == SubSeq(s, 1, Len(s) - n)

\* the relative path with each separator turned into a dot and only a final
\* ".py" removed
DottedStem(rel) ==
    LET dotted == [i \in 1..Len(rel) |-> IF rel[i] = Sep THEN "." ELSE rel[i]]
    IN  IF EndsWith(dotted, <<".", "py">>) THEN DropLast(dotted, 2) ELSE dotted

\* the module name as described: the dotted stem without a final "__init__"
\* segment
DescribedName(rel) ==
    LET stem == DottedStem(rel)
    IN  IF stem = <<"__init__">> THEN <<>>
        ELSE IF EndsWith(stem, <<".", "__init__">>) THEN DropLast(stem, 2)
        ELSE stem

\* C11: for a file under the project root the derived module name is the
\* relative path with separators turned into dots, less only the final ".py"
\* and only a final "__init__" segment; everything else, an inner ".py" or
\* ".__init__" included, is kept.  (For the root's own __init__.py both the
\* empty name and "__init__" are accepted here; C12 is about that file.)
DerivedNameKeepsInnerParts ==
    ModuleCallReturned =>
        \/ derived = <<DescribedName(target_files[1])>>
        \/ DottedStem(target_files[1]) = <<"__init__">> /\ derived = <<<<"__init__">>>>

\* C12: whenever the module name as described is empty, as for __init__.py in
\* the project root, run_import_test returns FAILURE with the
\* cannot-derive-a-module-name detail and starts no import process.
EmptyNameFailsWithoutImport ==
    (ModuleCallReturned /\ DescribedName(target_files[1]) = <<>>) =>
        /\ results[1].status = "FAILURE"
        /\ results[1].error = Some(<<"cannot turn the file into a module name">>)
        /\ calls = <<>>


\* the commands of the child processes started so far
Commands == { calls[k].cmd : k \in 1..Len(calls) }

PipCommands == {"pip install --upgrade pip", "pip install -r", "pip install ."}

\* C13: find_dep_file takes requirements.txt before pyproject.toml; with both
\* present only pip install -r is run and pip install . never is; with neither
\* present no installer process is started and provisioning succeeds once the
\* environment and its interpreter are there.
DependencyFileSelection ==
    prog = "verifier" =>
        /\ find_dep_file(present) =
               IF "requirements.txt" \in present THEN Some("requirements.txt")
               ELSE IF "pyproject.toml" \in present THEN Some("pyproject.toml")
               ELSE None
        /\ "requirements.txt" \in present =>
               /\ "pip install ." \notin Commands
               /\ Logged("INFO") => "pip install -r" \in Commands
        /\ present = {"pyproject.toml"} =>
               /\ "pip install -r" \notin Commands
               /\ Logged("INFO") => "pip install ." \in Commands
        /\ present = {} =>
               /\ Commands \cap PipCommands = {}
               /\ seen # {} => (Logged("INFO") /\ ~ProvisioningFailed)

\* both dependency files exist and the installation has run
DependencyFileSelectionWitness ==
    /\ prog = "verifier"
    /\ present = {"requirements.txt", "pyproject.toml"}
    /\ "pip install -r" \in Commands
    /\ pc = "loop"


\* the linter process could not be started: subprocess.run raised
LaunchFailed == prog = "detect_health" /\ proc.kind = "Exception"

\* C14: when starting the linter process fails, detect_health.py reports
\* status "error"; for the access-denied error (WinError 5) the message is the
\* fixed permissions hint, otherwise the message ends with the text of the
\* underlying error.
LaunchFailureIsError ==
    LaunchFailed =>
        /\ Len(stdout) = 1
        /\ stdout[1].status = "error"
        /\ IF Contains(<<"WinError 5">>, proc.msg)
           THEN stdout[1].message =
                    <<"pyflakes_runtime_error",
                      ": Access Denied (WinError 5). Check file execution rights.">>
           ELSE /\ EndsWith(stdout[1].message, proc.msg)
                /\ StartsWith(stdout[1].message, <<"pyflakes_runtime_error">>)
        /\ exit_code = 0

\* the linter could not be started because access was denied
LaunchFailureIsErrorWitness ==
    /\ LaunchFailed
    /\ Contains(<<"WinError 5">>, proc.msg)
    /\ stdout[1].status = "error"


\* the k-th direct call of check_syntax has returned
SyntaxCallReturned(k) ==
    /\ prog \in {"verifier.check_syntax", "detect_health.check_syntax"}
    /\ k \in DOMAIN syn_seen

\* C15: check_syntax of either file returns None exactly when the file was
\* read and parsed; for a SyntaxError the message holds the parser's message
\* followed by the line number; for any other exception the message is the
\* cannot-read-file message around the exception's text, and it differs from
\* the message of every SyntaxError.
SyntaxResultTellsCause ==
    \A k \in 1..Len(syn_in) :
        SyntaxCallReturned(k) =>
            /\ syn_seen[k] = None <=> syn_in[k].kind = "parsed"
            /\ syn_in[k].kind = "SyntaxError" =>
                   /\ StartsWith(syn_seen[k][1], <<"SyntaxError: ">>)
                   /\ EndsWith(syn_seen[k][1],
                               syn_in[k].msg \o <<" at line ", syn_in[k].lineno>>)
            /\ syn_in[k].kind = "Exception" =>
                   /\ Contains(<<"cannot read file (">> \o syn_in[k].msg \o <<")">>,
                               syn_seen[k][1])
                   /\ \A j \in 1..Len(syn_in) :
                          syn_in[j].kind = "SyntaxError" => syn_seen[j] # syn_seen[k]

\* a file that does not parse, then a file that cannot be read whose error
\* text reads like the end of a parser message
SyntaxResultTellsCauseWitness ==
    /\ SyntaxCallReturned(2)
    /\ prog = "detect_health.check_syntax"
    /\ syn_in[1] = [kind |-> "SyntaxError", msg |-> <<>>, lineno |-> "1"]
    /\ syn_in[2] = [kind |-> "Exception", msg |-> <<" at line ", "1">>, lineno |-> ""]
    /\ syn_seen[2] = Some(<<"SyntaxError: ", "cannot read file (", " at line ", "1", ")">>)


\* this step starts one of the provisioner's child processes
ProvisionStep ==
    /\ calls' # calls
    /\ calls'[Len(calls')].cmd \in {"venv"} \cup PipCommands

\* what holds of every step of a run of verifier.py
ProvisionStepInOrder ==
    /\ ProvisionStep =>
           LET cmd == calls'[Len(calls')].cmd
           IN  /\ ~ProvisioningFailed
               /\ cmd = "venv" => calls = <<>>
               /\ cmd = "pip install --upgrade pip" =>
                      /\ Len(calls) = 1 /\ calls[1].cmd = "venv"
                      /\ venv_exists /\ interp_exists
                      /\ find_dep_file(present) # None
               /\ cmd \in {"pip install -r", "pip install ."} =>
                      /\ Len(calls) = 2
                      /\ calls[2].cmd = "pip install --upgrade pip"
    /\ ProvisioningFailed' =>
           /\ pc' = "exited" /\ exit_code' = 1
           /\ syn_seen' = <<>> /\ results' = <<>> /\ stdout' = <<>>
    /\ ProvisioningFailed => calls' = calls

\* C16: the environment is created first; the installer is upgraded only after
\* that succeeded and a dependency file was found; the dependencies are
\* installed only after the upgrade succeeded; when one of the steps fails no
\* later step runs and the run ends with exit code 1 and no file checked.
ProvisionerStepsInOrder == [][prog = "verifier" => ProvisionStepInOrder]_vars

\* the upgrade of the installer failed
ProvisionerStepsInOrderWitness ==
    /\ prog = "verifier"
    /\ Len(calls) = 2 /\ calls[2].cmd = "pip install --upgrade pip"
    /\ ProvisioningFailed
    /\ pc = "exited"


\* the report was printed before the deletion was attempted, and once the
\* deletion has been attempted the run is over with exit code 0
ReportThenDeletion ==
    /\ Len(stdout) <= 1 /\ deleted <= 1
    /\ deleted = 1 => (Len(stdout) = 1 /\ pc = "exited" /\ exit_code = 0)
    /\ Len(stdout) = 1 => DOMAIN verdict = 1..Len(target_files)

\* C17: in a run of verifier.py whose provisioning succeeded the report is
\* printed exactly once, before the deletion of the environment is attempted;
\* the deletion is attempted exactly once, after the last import check; a
\* failing deletion only logs a warning and the exit code is 0.
ReportOnceThenDeletionOnce ==
    (prog = "verifier" /\ ~ProvisioningFailed) =>
        /\ ReportThenDeletion
        /\ exit_code # -1 => (Len(stdout) = 1 /\ deleted = 1 /\ exit_code = 0)


\* this step starts an import child process
ImportStarts ==
    /\ calls' # calls
    /\ calls'[Len(calls')].cmd = "import"

\* C18: run_import_test puts the project root at the front of PYTHONPATH only
\* in the environment handed to the import child; the environment of the
\* running process is the same after the call as before it, so every file's
\* child is given the same search path.
SearchPathOnlyInChild ==
    [][/\ environ' = environ
       /\ ImportStarts =>
              /\ StartsWith(child'.pythonpath, project_dir \o <<";">>)
              /\ child'.pythonpath =
                     project_dir \o <<";">> \o (IF environ = None THEN <<>> ELSE environ[1])
              /\ child # NoChild => child'.pythonpath = child.pythonpath]_vars

\* two files were imported in a process that has a PYTHONPATH of its own
SearchPathOnlyInChildWitness ==
    /\ prog = "verifier"
    /\ ImportCalled(1) /\ ImportCalled(2)
    /\ environ = Some(<<"C:", Sep, "lib">>)
    /\ child.pythonpath = project_dir \o <<";", "C:", Sep, "lib">>


\* the interpreter of the environment, at its fixed place
InterpreterPath == venv_path \o <<Sep, "Scripts", Sep, "python.exe">>

\* C19: provisioning succeeds only if the interpreter exists at
\* <environment path>\Scripts\python.exe after the environment was created;
\* when it does not, the run exits with code 1 and checks no file; every
\* import child is started with the interpreter path that was seen to exist.
InterpreterSeenBeforeUse ==
    prog = "verifier" =>
        /\ (Logged("INFO") \/ pc \in {"pip_upgrade", "pip_install"}) =>
               seen = {InterpreterPath}
        /\ (Logged("VENV_SETUP") /\ pc # "check_interpreter"
                /\ ~interp_exists /\ deleted = 0) =>
               /\ pc = "exited" /\ exit_code = 1
               /\ ProvisioningFailed
               /\ syn_seen = <<>> /\ results = <<>>
               /\ Len(calls) = 1
        /\ child # NoChild =>
               /\ child.executable = InterpreterPath
               /\ child.executable \in seen

\* the environment was created without an interpreter in it
InterpreterMissingWitness ==
    /\ prog = "verifier"
    /\ venv_exists /\ ~interp_exists
    /\ seen = {}
    /\ pc = "exited" /\ exit_code = 1


\* C20: a run of detect_health.py prints exactly one JSON object; with a file
\* path argument it ends with exit code 0 whatever the verdict; without one it
\* ends with exit code 1, the object is the missing-argument error, and no
\* check has run.
OneObjectAndExitCode ==
    prog = "detect_health" =>
        /\ Len(stdout) <= 1
        /\ pc # "exited" => stdout = <<>>
        /\ pc = "exited" =>
               /\ Len(stdout) = 1
               /\ IF Len(argv) < 2
                  THEN /\ exit_code = 1
                       /\ stdout[1] = [status |-> "error",
                                       message |-> <<"Missing file path argument">>]
                       /\ syn_seen = <<>> /\ calls = <<>>
                  ELSE /\ exit_code = 0
                       /\ stdout[1].status \in StatusesB
                       /\ syn_seen # <<>>

\* a run without a file path argument has ended
OneObjectAndExitCodeWitness ==
    /\ prog = "detect_health"
    /\ Len(argv) < 2
    /\ pc = "exited" /\ exit_code = 1
    /\ Len(stdout) = 1

====
